---- MODULE Spec2Model ----
(***************************************************************************)
(* Model of teleop: the cancellation token (src/cancellation.rs), the      *)
(* capability router (src/operate/capnp/mod.rs) and the attach handshake   *)
(* (src/attach).  Each component has its own specification; the variables  *)
(* of the other components stay unchanged in it.                           *)
(***************************************************************************)
EXTENDS Integers, Sequences, FiniteSets, TLC

(***************************************************************************)
(* Bounds of the model.                                                    *)
(***************************************************************************)
\* number of tasks awaiting a cancelled() future
NumWaiters == 2
\* number of distinct wakers the first waiting task may be polled with
NumWakerIds == 2
\* number of CancellationToken clones that may be made
MaxClones == 2

(***************************************************************************)
(* Cancellation token: src/cancellation.rs                                 *)
(***************************************************************************)
VARIABLES
    cancelled,   \* State.cancelled
    wakers,      \* State.wakers, a Vec<Waker>
    clones,      \* number of CancellationToken values sharing the state
    taskState,   \* per waiting task: where its CancelledFuture stands
    stored,      \* per waker: how many times poll pushed it
    woke,        \* per waker: how many times wake() was called on it
    tokOp,       \* the last token operation: which one, on which clone or
                 \* task, and the flag it read under the lock
    lockState    \* the Mutex around State: "free", or where the cancel()
                 \* that holds its guard stands

tokenVars ==
    <<cancelled, wakers, clones, taskState, stored, woke, tokOp, lockState>>

VARIABLES
    phase,       \* "setup": the TeleopServer is still owned by its builder;
                 \* "serving": it was moved into the bootstrap capability
    services,    \* TeleopServer.services: name -> lazy cell
    nregs,       \* number of register_service calls made so far
    invoked,     \* per registered factory: how many times it ran
    ncaps,       \* number of capabilities built by capnp_rpc::new_client
    sessState,   \* per session: state of the RPC session
    sessLog      \* per session: results of its service() calls, in order

routerVars == <<phase, services, nregs, invoked, ncaps, sessState, sessLog>>

VARIABLES
    channel,     \* module that provides listen/connect: "unix_socket" or
                 \* "windows_unix_socket" (src/attach/mod.rs)
    variant,     \* the attacher: "Dummy", "Unix", "Inotify" or "Kqueue"
    witness,     \* the file .teleop_attach_<pid> exists in the target's cwd
    sock,        \* the socket path .teleop_pid_<pid> exists
    pending,     \* wake-ups queued for the target's signaled() future
    tpc,         \* where the target's listen() stream stands
    backlog,     \* connections waiting in the listener's accept queue
    yielded,     \* connections the listen() stream has yielded
    atBind,      \* whether the witness file existed when bind created sock
    sOp,         \* the last poll of the signaled() future and what it saw
    cpc,         \* where the client's connect() stands
    attempts,    \* connect's local variable
    nsends,      \* signals sent by this connect()
    nsleeps,     \* Timer::after sleeps of this connect()
    opened,      \* connect() called UnixStream::connect
    cres,        \* how connect() ended
    hstate,      \* per signal handle: its life and its `file` field
    aOp          \* the last signal handle operation and what it saw

cfgVars == <<channel, variant>>
fsVars == <<witness, sock, pending>>
targetVars == <<tpc, backlog, yielded, atBind, sOp>>
clientVars == <<cpc, attempts, nsends, nsleeps, opened, cres>>
handleVars == <<hstate, aOp>>
attachVars == <<cfgVars, fsVars, targetVars, clientVars, handleVars>>

\* task 0 is the listener task of attach::unix_socket::listen
ListenerTask == 0
Waiters == 1..NumWaiters
Tasks == {ListenerTask} \cup Waiters
WakerIds == 1..NumWakerIds
\* the wakers handed to poll in Context: the first waiter is a task whose
\* future is polled through several wakers (a combinator wraps the task's
\* waker), every other task always comes with the same waker
Wakers == {w \in [task : Tasks, id : WakerIds] : w.id = 1 \/ w.task = 1}

SeqToSet(s) == {s[i] : i \in 1..Len(s)}

\* Waker::will_wake: best effort, true only for the very same waker
will_wake(a, b) == a = b

\* a poll that pushes the waker without looking at the stored ones
needs_save_always(ws, w) == TRUE

\* the loop of CancelledFuture::poll that decides whether to store the waker
needs_save(ws, w) == \A i \in 1..Len(ws) : ~will_wake(w, ws[i])

\* Waker::wake on a task: a task whose poll returned Pending is rescheduled
wake(ts, w) ==
    IF ts[w.task] = "pending" THEN [ts EXCEPT ![w.task] = "woken"] ELSE ts

RECURSIVE wake_all(_, _)
wake_all(ts, ws) ==
    IF ws = <<>> THEN ts ELSE wake_all(wake(ts, Head(ws)), Tail(ws))

CountIn(ws, w) == Cardinality({i \in 1..Len(ws) : ws[i] = w})

TokenInit ==
    /\ cancelled = FALSE
    /\ wakers = <<>>
    /\ clones = 1
    /\ taskState = [t \in Tasks |-> "new"]
    /\ stored = [w \in Wakers |-> 0]
    /\ woke = [w \in Wakers |-> 0]
    /\ tokOp = [op |-> "new", who |-> 1, was |-> FALSE]
    /\ lockState = "free"

\* self.state.lock().unwrap() by a thread that does not hold the guard: it
\* goes on once no cancel() holds the guard; after a panic under the guard
\* the Mutex is poisoned and unwrap() panics
lock_unwrap == lockState \in {"free", "returned"}

\* #[derive(Clone)]: the clone shares the Arc<Mutex<State>>
Clone ==
    /\ clones < MaxClones
    /\ clones' = clones + 1
    /\ tokOp' = [op |-> "clone", who |-> clones + 1, was |-> cancelled]
    /\ UNCHANGED <<cancelled, wakers, taskState, stored, woke, lockState>>
    /\ UNCHANGED <<routerVars, attachVars>>

\* cancel() that sets the flag only when it has somebody to wake
CancelBodyFlagIfWaiters ==
    /\ cancelled' = (wakers # <<>>)
    /\ taskState' = wake_all(taskState, wakers)
    /\ woke' = [w \in Wakers |-> woke[w] + CountIn(wakers, w)]
    /\ wakers' = <<>>

\* cancel() that iterates over the wakers without draining them
CancelBodyNoDrain ==
    /\ cancelled' = TRUE
    /\ taskState' = wake_all(taskState, wakers)
    /\ woke' = [w \in Wakers |-> woke[w] + CountIn(wakers, w)]
    /\ wakers' = wakers

\* cancel() that drops the stored wakers without waking them
CancelBodyNoWake ==
    /\ cancelled' = TRUE
    /\ taskState' = taskState
    /\ woke' = woke
    /\ wakers' = <<>>

\* CancellationToken::cancel, the whole body runs under the lock
CancelBody ==
    /\ cancelled' = TRUE
    /\ taskState' = wake_all(taskState, wakers)
    /\ woke' = [w \in Wakers |-> woke[w] + CountIn(wakers, w)]
    /\ wakers' = <<>>

\* cancel() as one step: the lock is taken, every stored waker only
\* schedules its task, the lock is released
Cancel(c) ==
    /\ c \in 1..clones
    /\ lock_unwrap
    /\ CancelBody
    /\ tokOp' = [op |-> "cancel", who |-> c, was |-> cancelled]
    /\ UNCHANGED <<clones, stored, lockState>>
    /\ UNCHANGED <<routerVars, attachVars>>

is_cancelled_never == FALSE

\* CancellationToken::is_cancelled, the value it returns
is_cancelled == cancelled

IsCancelled(c) ==
    /\ c \in 1..clones
    /\ lock_unwrap
    /\ tokOp' = [op |-> "is_cancelled", who |-> c, was |-> is_cancelled]
    /\ UNCHANGED <<cancelled, wakers, clones, taskState, stored, woke,
                   lockState>>
    /\ UNCHANGED <<routerVars, attachVars>>

\* a poll that stores its waker before it looks at the flag
PollBodyStoresFirst(w) ==
    /\ IF needs_save(wakers, w)
       THEN /\ wakers' = Append(wakers, w)
            /\ stored' = [stored EXCEPT ![w] = @ + 1]
       ELSE UNCHANGED <<wakers, stored>>
    /\ taskState' = [taskState EXCEPT ![w.task] =
                        IF cancelled THEN "ready" ELSE "pending"]
    /\ UNCHANGED <<cancelled, woke>>

\* CancelledFuture::poll, the whole body runs under the lock
PollBody(w) ==
    IF cancelled
    THEN /\ taskState' = [taskState EXCEPT ![w.task] = "ready"]
         /\ UNCHANGED <<cancelled, wakers, stored, woke>>
    ELSE /\ IF needs_save(wakers, w)
            THEN /\ wakers' = Append(wakers, w)
                 /\ stored' = [stored EXCEPT ![w] = @ + 1]
            ELSE UNCHANGED <<wakers, stored>>
         /\ taskState' = [taskState EXCEPT ![w.task] = "pending"]
         /\ UNCHANGED <<cancelled, woke>>

\* a waiter task polls its cancelled() future: first poll, poll after a
\* wake, or a poll caused by another future of the same task
Poll(w) ==
    /\ w.task \in Waiters
    /\ taskState[w.task] # "ready"
    /\ lock_unwrap
    /\ PollBody(w)
    /\ tokOp' = [op |-> "poll", who |-> w.task, was |-> cancelled]
    /\ UNCHANGED <<clones, lockState>>
    /\ UNCHANGED <<routerVars, attachVars>>

TokenNext ==
    \/ Clone
    \/ \E c \in 1..MaxClones : Cancel(c)
    \/ \E c \in 1..MaxClones : IsCancelled(c)
    \/ \E w \in Wakers : Poll(w)

\* what lock() does on the thread that already holds the guard: std leaves
\* it unspecified, it never returns: it blocks for ever or it panics
relock_outcomes == {"deadlocked", "panicked"}

\* cancel(), step by step.  First step: the lock is taken and the flag set.
CancelLock(c) ==
    /\ c \in 1..clones
    /\ lock_unwrap
    /\ lockState' = "draining"
    /\ cancelled' = TRUE
    /\ tokOp' = [op |-> "cancel", who |-> c, was |-> cancelled]
    /\ UNCHANGED <<wakers, clones, taskState, stored, woke>>
    /\ UNCHANGED <<routerVars, attachVars>>

\* cancel(): one turn of `for waker in state.wakers.drain(..)`, with the
\* guard held.  wake() either schedules the task, or (inline) runs the task
\* on the calling thread before it returns: the task polls its cancelled()
\* future or calls is_cancelled(), which locks the Mutex again.  A panic
\* unwinds through cancel(): Drain drops the wakers that are left and the
\* guard poisons the Mutex.
CancelWake(inline) ==
    /\ lockState = "draining"
    /\ wakers # <<>>
    /\ woke' = [woke EXCEPT ![Head(wakers)] = @ + 1]
    /\ IF inline
       THEN /\ \E out \in relock_outcomes :
                /\ lockState' = out
                /\ wakers' = IF out = "panicked" THEN <<>> ELSE Tail(wakers)
            /\ UNCHANGED taskState
       ELSE /\ taskState' = wake(taskState, Head(wakers))
            /\ wakers' = Tail(wakers)
            /\ UNCHANGED lockState
    /\ UNCHANGED <<cancelled, clones, stored, tokOp>>
    /\ UNCHANGED <<routerVars, attachVars>>

\* cancel(): the loop is over, the guard is dropped, cancel() returns
CancelReturn ==
    /\ lockState = "draining"
    /\ wakers = <<>>
    /\ lockState' = "returned"
    /\ UNCHANGED <<cancelled, wakers, clones, taskState, stored, woke, tokOp>>
    /\ UNCHANGED <<routerVars, attachVars>>

\* the token with cancel() taken step by step and wakers of both kinds
LockNext ==
    \/ Clone
    \/ \E c \in 1..MaxClones : CancelLock(c)
    \/ \E inline \in BOOLEAN : CancelWake(inline)
    \/ CancelReturn
    \/ \E c \in 1..MaxClones : IsCancelled(c)
    \/ \E w \in Wakers : Poll(w)

(***************************************************************************)
(* Capability router: src/operate/capnp/mod.rs                             *)
(***************************************************************************)
\* number of register_service calls
MaxRegs == 2
\* number of RPC sessions sharing the router
NumSessions == 2
\* number of service() calls, all sessions together
MaxCalls == 3

Sessions == 1..NumSessions
Factories == 1..MaxRegs
\* service names, as texts made of tokens
Echo == <<"echo">>
Tango == <<"tango">>
RegNames == {Echo, Tango}
ReqNames == {Echo, Tango, <<>>}

\* a cell that holds its capability from the registration on
LazyLock_new_eager(f) == [factory |-> f, cap |-> f]

\* a lazy cell that was never dereferenced
LazyLock_new(f) == [factory |-> f, cap |-> 0]

\* the message without the requested name
not_found_message_no_name(name) == <<"service", " ", "not", " ", "found">>

\* format!("service {name} not found")
not_found_message(name) == <<"service", " ">> \o name \o <<" ", "not", " ", "found">>

\* capnp::Error::failed
Error_failed(extra) == [kind |-> "Failed", extra |-> extra]

\* str::contains on texts
Contains(hay, needle) ==
    \E i \in 1..(Len(hay) + 1) :
        /\ i + Len(needle) - 1 <= Len(hay)
        /\ SubSeq(hay, i, i + Len(needle) - 1) = needle

RouterInit ==
    /\ phase = "setup"
    /\ services = <<>>
    /\ nregs = 0
    /\ invoked = [f \in Factories |-> 0]
    /\ ncaps = 0
    /\ sessState = [s \in Sessions |-> "none"]
    /\ sessLog = [s \in Sessions |-> <<>>]

\* an insert that keeps the value of a key that is already present
map_insert_keeps(m, k, v) ==
    [x \in (DOMAIN m) \cup {k} |-> IF x \in DOMAIN m THEN m[x] ELSE v]

\* BTreeMap::insert: adds the key or replaces its value
map_insert(m, k, v) == [x \in (DOMAIN m) \cup {k} |-> IF x = k THEN v ELSE m[x]]

\* TeleopServer::register_service
register_service(name) ==
    /\ phase = "setup"
    /\ nregs < MaxRegs
    /\ nregs' = nregs + 1
    /\ services' = map_insert(services, name, LazyLock_new(nregs + 1))
    /\ UNCHANGED <<phase, invoked, ncaps, sessState, sessLog>>
    /\ UNCHANGED <<tokenVars, attachVars>>

\* capnp_rpc::new_client(server): the router becomes the bootstrap capability
Serve ==
    /\ phase = "setup"
    /\ phase' = "serving"
    /\ UNCHANGED <<services, nregs, invoked, ncaps, sessState, sessLog>>
    /\ UNCHANGED <<tokenVars, attachVars>>

\* run_server_connection: a session starts on an accepted connection
OpenSession(s) ==
    /\ phase = "serving"
    /\ sessState[s] = "none"
    /\ sessState' = [sessState EXCEPT ![s] = "running"]
    /\ UNCHANGED <<phase, services, nregs, invoked, ncaps, sessLog>>
    /\ UNCHANGED <<tokenVars, attachVars>>

\* a session whose end takes the other running sessions with it
EndSessionAll(s, how) ==
    /\ sessState[s] = "running"
    /\ sessState' = [t \in Sessions |->
                        IF sessState[t] = "running" THEN how ELSE sessState[t]]
    /\ UNCHANGED <<phase, services, nregs, invoked, ncaps, sessLog>>
    /\ UNCHANGED <<tokenVars, attachVars>>

\* the rpc_system future completes: the peer closed, or the transport failed
EndSession(s, how) ==
    /\ sessState[s] = "running"
    /\ sessState' = [sessState EXCEPT ![s] = how]
    /\ UNCHANGED <<phase, services, nregs, invoked, ncaps, sessLog>>
    /\ UNCHANGED <<tokenVars, attachVars>>

\* service() that builds the capability anew on every call
ServiceHitNoMemo(s, name) ==
    LET cell == services[name] IN
    /\ invoked' = [invoked EXCEPT ![cell.factory] = @ + 1]
    /\ ncaps' = ncaps + 1
    /\ services' = [services EXCEPT ![name].cap = ncaps + 1]
    /\ sessLog' = [sessLog EXCEPT ![s] =
            Append(@, [name |-> name, kind |-> "ok",
                       cap |-> services'[name].cap, err |-> <<>>])]
    /\ UNCHANGED <<phase, nregs, sessState>>

\* service(): the name is registered.  Dereferencing the LazyLock runs the
\* factory when the cell is not initialized yet; the hook is then cloned.
ServiceHit(s, name) ==
    LET cell == services[name] IN
    /\ IF cell.cap = 0
       THEN /\ invoked' = [invoked EXCEPT ![cell.factory] = @ + 1]
            /\ ncaps' = ncaps + 1
            /\ services' = [services EXCEPT ![name].cap = ncaps + 1]
       ELSE UNCHANGED <<invoked, ncaps, services>>
    /\ sessLog' = [sessLog EXCEPT ![s] =
            Append(@, [name |-> name, kind |-> "ok",
                       cap |-> services'[name].cap, err |-> <<>>])]
    /\ UNCHANGED <<phase, nregs, sessState>>

\* service() whose failure takes the session down
ServiceMissEndsSession(s, name) ==
    /\ sessLog' = [sessLog EXCEPT ![s] =
            Append(@, [name |-> name, kind |-> "err", cap |-> 0,
                       err |-> Error_failed(not_found_message(name))])]
    /\ sessState' = [sessState EXCEPT ![s] = "io_error"]
    /\ UNCHANGED <<phase, services, nregs, invoked, ncaps>>

\* service(): the name is not registered
ServiceMiss(s, name) ==
    /\ sessLog' = [sessLog EXCEPT ![s] =
            Append(@, [name |-> name, kind |-> "err", cap |-> 0,
                       err |-> Error_failed(not_found_message(name))])]
    /\ UNCHANGED <<phase, services, nregs, invoked, ncaps, sessState>>

RECURSIVE SumLen(_, _)
SumLen(log, n) == IF n = 0 THEN 0 ELSE Len(log[n]) + SumLen(log, n - 1)

\* the service() calls made so far
TotalCalls == SumLen(sessLog, NumSessions)

\* teleop::Server::service for TeleopServer, called by a running session
service(s, name) ==
    /\ sessState[s] = "running"
    /\ TotalCalls < MaxCalls
    /\ IF name \in DOMAIN services
       THEN ServiceHit(s, name)
       ELSE ServiceMiss(s, name)
    /\ UNCHANGED <<tokenVars, attachVars>>

RouterNext ==
    \/ \E name \in RegNames : register_service(name)
    \/ Serve
    \/ \E s \in Sessions : OpenSession(s)
    \/ \E s \in Sessions : \E how \in {"peer_closed", "io_error"} :
            EndSession(s, how)
    \/ \E s \in Sessions : \E name \in ReqNames : service(s, name)

(***************************************************************************)
(* Attach handshake: src/attach and src/internal.rs                        *)
(***************************************************************************)
\* the retry budget of connect
MaxAttempts == 100
\* signal handles made by users of the Attacher other than connect()
NumFreeHandles == 1

\* handle 0 is the one connect() owns
ConnectHandle == 0
FreeHandles == 1..NumFreeHandles
Handles == {ConnectHandle} \cup FreeHandles

FileVariants == {"Unix", "Inotify", "Kqueue"}

\* the waker the listener task polls the token with
ListenerWaker == [task |-> ListenerTask, id |-> 1]

\* the OS resource of signaled() is installed: Signals::new runs when the
\* future is built, the inotify and kqueue watches when it is first polled
Armed ==
    CASE variant = "Unix" -> tpc \in {"armed", "waiting"}
      [] variant \in {"Inotify", "Kqueue"} -> tpc = "waiting"
      [] OTHER -> FALSE

\* the creation of a file that the watch of the target does not report
on_create_unwatched(p, name) == p

\* wake-ups queued by the creation of a file in the target's cwd
on_create(p, name) ==
    IF ~Armed THEN p
    ELSE CASE variant = "Inotify" -> p \cup {name}
           [] variant = "Kqueue" -> p \cup {"dir_write"}
           [] OTHER -> p

\* wake-ups queued by the removal of a file in the target's cwd
on_remove(p) ==
    IF Armed /\ variant = "Kqueue" THEN p \cup {"dir_write"} ELSE p

\* the target process is gone: kill and the lookup of its cwd fail
Gone == tpc = "dead"

\* kill(pid, SIGQUIT): the target's state afterwards
kill_tpc == IF tpc = "init" THEN "dead" ELSE tpc

\* kill(pid, SIGQUIT): the wake-ups queued afterwards
kill_pending(p) == IF Armed THEN p \cup {"sigquit"} ELSE p

\* send() that never creates the file
send_creates_never(hs, w) == FALSE

\* send(): the condition under which it creates the file again, `file` is
\* None or file.exists() is false
send_creates(hs, w) == hs # "holding" \/ ~w

\* send(): whether the file exists once `self.file = Some(create(path)?)`
\* is done.  The assignment drops the previous AutoDropFile after the new
\* one was created, and its destructor removes the path when it exists.
witness_after_create(hs) == hs # "holding"

\* a destructor that leaves the file in place
witness_after_drop_keeps(hs, w) == w

\* Drop for AutoDropFile: whether the path exists afterwards
witness_after_drop(hs, w) == IF hs = "holding" THEN FALSE ELSE w

\* format!("Unable to open socket file {}: target process {} doesn't respond")
no_response_message ==
    <<"Unable to open socket file ", "<path>", ": target process ", "<pid>",
      " doesn't respond">>

\* str::starts_with on texts
StartsWith(text, prefix) ==
    /\ Len(prefix) <= Len(text)
    /\ SubSeq(text, 1, Len(prefix)) = prefix

\* the record of a signaled() future that was not polled, or is gone
no_poll ==
    [op |-> "none", first |-> FALSE, ev |-> {}, had |-> FALSE, done |-> FALSE,
     again |-> "no"]

AttachInit ==
    /\ channel \in {"unix_socket", "windows_unix_socket"}
    /\ variant \in {"Dummy", "Unix", "Inotify", "Kqueue"}
    /\ channel = "unix_socket" => variant = "Unix"
    /\ witness = FALSE
    /\ sock \in BOOLEAN
    /\ pending = {}
    /\ tpc = "init"
    /\ backlog = 0
    /\ yielded = 0
    /\ atBind = "unbound"
    /\ sOp = no_poll
    /\ cpc = "idle"
    /\ attempts = 0
    /\ nsends = 0
    /\ nsleeps = 0
    /\ opened = FALSE
    /\ cres = [kind |-> "none", exit |-> "none", msg |-> <<>>]
    /\ hstate = [h \in Handles |-> "none"]
    /\ aOp = [op |-> "none", h |-> 0, ok |-> TRUE, had |-> FALSE,
              found |-> FALSE, left |-> FALSE]

(***************************************************************************)
(* Signal handles: src/attach/attacher/{unix,inotify,kqueue,dummy}.rs      *)
(***************************************************************************)

\* AttacherSignal::send of the handle h, as one step: it changes the file
\* system, the target and the handle.  A SIGQUIT kills a target that has
\* not registered its Signals yet.
SendBody(h, gone) ==
    IF variant = "Dummy"
    THEN /\ aOp' = [op |-> "send", h |-> h, ok |-> TRUE, had |-> FALSE,
                    found |-> witness, left |-> witness]
         /\ UNCHANGED <<witness, pending, tpc, hstate>>
    ELSE IF gone
    THEN \* attach_file_path(pid)? or kill(..)? returns the error
         /\ aOp' = [op |-> "send", h |-> h, ok |-> FALSE,
                    had |-> hstate[h] = "holding",
                    found |-> witness, left |-> witness]
         /\ UNCHANGED <<witness, pending, tpc, hstate>>
    ELSE LET creates == send_creates(hstate[h], witness)
             w1 == IF creates THEN witness_after_create(hstate[h])
                   ELSE witness
             p1 == IF creates /\ ~witness
                   THEN on_create(pending, "create_witness") ELSE pending
             p2 == IF creates /\ ~w1 THEN on_remove(p1) ELSE p1
         IN /\ witness' = w1
            /\ hstate' = [hstate EXCEPT ![h] = "holding"]
            /\ pending' = IF variant = "Unix" THEN kill_pending(p2) ELSE p2
            /\ tpc' = IF variant = "Unix" THEN kill_tpc ELSE tpc
            /\ aOp' = [op |-> "send", h |-> h, ok |-> TRUE,
                       had |-> hstate[h] = "holding",
                       found |-> witness, left |-> w1]

\* the handle h goes out of scope: Drop for AutoDropFile when it has a file
DropBody(h) ==
    /\ witness' = witness_after_drop(hstate[h], witness)
    /\ pending' = IF witness /\ ~witness' THEN on_remove(pending) ELSE pending
    /\ hstate' = [hstate EXCEPT ![h] = "dropped"]
    /\ aOp' = [op |-> "drop", h |-> h, ok |-> TRUE,
               had |-> hstate[h] = "holding",
               found |-> witness, left |-> witness']

\* Attacher::signal(pid) called by another user of the attacher
Signal(h) ==
    /\ h \in FreeHandles
    /\ hstate[h] = "none"
    /\ hstate' = [hstate EXCEPT ![h] = IF variant = "Dummy" THEN "plain" ELSE "fresh"]
    /\ aOp' = [op |-> "signal", h |-> h, ok |-> TRUE, had |-> FALSE,
               found |-> witness, left |-> witness]
    /\ UNCHANGED <<cfgVars, fsVars, targetVars, clientVars>>
    /\ UNCHANGED <<tokenVars, routerVars>>

\* that user sends
Send(h) ==
    /\ h \in FreeHandles
    /\ hstate[h] \in {"plain", "fresh", "holding"}
    /\ \E gone \in {Gone} : SendBody(h, gone)
    /\ UNCHANGED <<cfgVars, sock, backlog, yielded, atBind, sOp, clientVars>>
    /\ UNCHANGED <<tokenVars, routerVars>>

\* that user drops its handle
Drop(h) ==
    /\ h \in FreeHandles
    /\ hstate[h] \in {"plain", "fresh", "holding"}
    /\ DropBody(h)
    /\ UNCHANGED <<cfgVars, sock, targetVars, clientVars>>
    /\ UNCHANGED <<tokenVars, routerVars>>

(***************************************************************************)
(* connect: src/attach/unix_socket.rs and windows_unix_socket.rs           *)
(***************************************************************************)

\* a scope end that forgets to drop the signal handle
LeaveScopeLeaks == UNCHANGED <<witness, pending, hstate, aOp>>

\* the block `if !socket_file_path.exists() { .. }` of connect is left, by
\* its end, by `?` or by the panic: its signal handle (or its AutoDropFile)
\* goes out of scope when the block owns one
LeaveScope ==
    IF hstate[ConnectHandle] \in {"plain", "fresh", "holding"}
    THEN DropBody(ConnectHandle)
    ELSE UNCHANGED <<witness, pending, hstate, aOp>>

\* connect() ends
Return(kind, exit, msg) ==
    /\ cpc' = "returned"
    /\ cres' = [kind |-> kind, exit |-> exit, msg |-> msg]
    /\ LeaveScope

\* how connect() ends when the socket path is still missing after the loop:
\* unix_socket.rs panics, windows_unix_socket.rs returns the error
no_response_kind == IF channel = "unix_socket" THEN "panic" ELSE "err"

\* the loop condition of connect, without the budget
retry_unbounded(exists, n) == ~exists

\* the loop condition of connect: while !exists && attempts < 100
retry(exists, n) == ~exists /\ n < MaxAttempts

\* connect that wakes the target whether or not the socket path exists
needs_signal_always(exists) == TRUE

\* the first condition of connect: if !socket_file_path.exists()
needs_signal(exists) == ~exists

\* connect() is entered: the first existence check, then signal(pid) or,
\* in unix_socket.rs, the creation of the attach file
ConnectEnter ==
    /\ cpc = "idle"
    /\ IF ~needs_signal(sock)
       THEN /\ cpc' = "open"
            /\ UNCHANGED <<witness, pending, hstate, aOp, cres>>
       ELSE IF channel = "windows_unix_socket"
       THEN /\ cpc' = "send"
            /\ hstate' = [hstate EXCEPT ![ConnectHandle] =
                            IF variant = "Dummy" THEN "plain" ELSE "fresh"]
            /\ aOp' = [op |-> "signal", h |-> ConnectHandle, ok |-> TRUE,
                       had |-> FALSE, found |-> witness, left |-> witness]
            /\ UNCHANGED <<witness, pending, cres>>
       ELSE \E gone \in {Gone} :
            IF gone
            THEN Return("err", "create", <<"Io">>)
            ELSE /\ cpc' = "send"
                 /\ witness' = TRUE
                 /\ pending' = IF witness THEN pending
                               ELSE on_create(pending, "create_witness")
                 /\ hstate' = [hstate EXCEPT ![ConnectHandle] = "holding"]
                 /\ aOp' = [op |-> "create", h |-> ConnectHandle, ok |-> TRUE,
                            had |-> FALSE, found |-> witness, left |-> TRUE]
                 /\ UNCHANGED cres
    /\ UNCHANGED <<cfgVars, sock, targetVars, attempts, nsends, nsleeps, opened>>
    /\ UNCHANGED <<tokenVars, routerVars>>

\* signal.send().await? of connect_to_socket, kill(..)? of unix_socket.rs;
\* an error leaves connect(), which drops the handle
ConnectSend ==
    /\ cpc = "send"
    /\ \E gone \in {Gone} :
        IF gone /\ (channel = "unix_socket" \/ variant # "Dummy")
        THEN /\ Return("err", "send", <<"Io">>)
             /\ UNCHANGED <<tpc, attempts, nsends>>
        ELSE /\ IF channel = "windows_unix_socket"
                THEN SendBody(ConnectHandle, FALSE)
                ELSE /\ pending' = kill_pending(pending)
                     /\ tpc' = kill_tpc
                     /\ UNCHANGED <<witness, hstate, aOp>>
             /\ cpc' = "check"
             /\ attempts' = attempts + 1
             /\ nsends' = nsends + 1
             /\ UNCHANGED cres
    /\ UNCHANGED <<cfgVars, sock, backlog, yielded, atBind, sOp, nsleeps,
                   opened>>
    /\ UNCHANGED <<tokenVars, routerVars>>

\* the loop condition is evaluated
ConnectCheck ==
    /\ cpc = "check"
    /\ cpc' = IF retry(sock, attempts) THEN "sleep" ELSE "final"
    /\ UNCHANGED <<cfgVars, fsVars, targetVars, handleVars,
                   attempts, nsends, nsleeps, opened, cres>>
    /\ UNCHANGED <<tokenVars, routerVars>>

\* Timer::after(Duration::from_millis(100)).await
ConnectSleep ==
    /\ cpc = "sleep"
    /\ cpc' = "send"
    /\ nsleeps' = nsleeps + 1
    /\ UNCHANGED <<cfgVars, fsVars, targetVars, handleVars,
                   attempts, nsends, opened, cres>>
    /\ UNCHANGED <<tokenVars, routerVars>>

\* the existence check after the loop; when the path exists the block ends
\* here, before UnixStream::connect
ConnectFinal ==
    /\ cpc = "final"
    /\ IF ~sock
       THEN Return(no_response_kind, "final", no_response_message)
       ELSE /\ cpc' = "open"
            /\ LeaveScope
            /\ UNCHANGED cres
    /\ UNCHANGED <<cfgVars, sock, targetVars, attempts, nsends, nsleeps, opened>>
    /\ UNCHANGED <<tokenVars, routerVars>>

\* UnixStream::connect on the socket path, then connect() returns
ConnectOpen ==
    /\ cpc = "open"
    /\ opened' = TRUE
    /\ IF tpc = "listening"
       THEN /\ backlog' = backlog + 1
            /\ Return("ok", "open", <<>>)
       ELSE /\ backlog' = backlog
            /\ Return("err", "open", <<"Io">>)
    /\ UNCHANGED <<cfgVars, sock, tpc, yielded, atBind, sOp, attempts, nsends,
                   nsleeps>>
    /\ UNCHANGED <<tokenVars, routerVars>>

\* a further client calls connect(pid), with locals and a signal handle of
\* its own; as many connections as there are sessions to serve them
ConnectAgain ==
    /\ cpc = "returned"
    /\ backlog + yielded < NumSessions
    /\ cpc' = "idle"
    /\ attempts' = 0
    /\ nsends' = 0
    /\ nsleeps' = 0
    /\ opened' = FALSE
    /\ cres' = [kind |-> "none", exit |-> "none", msg |-> <<>>]
    /\ hstate' = [hstate EXCEPT ![ConnectHandle] = "none"]
    /\ UNCHANGED <<cfgVars, fsVars, targetVars, aOp>>
    /\ UNCHANGED <<tokenVars, routerVars>>

ClientNext ==
    \/ ConnectEnter
    \/ ConnectSend
    \/ ConnectCheck
    \/ ConnectSleep
    \/ ConnectFinal
    \/ ConnectOpen

(***************************************************************************)
(* listen: src/attach/unix_socket.rs and windows_unix_socket.rs, and the   *)
(* signaled() futures of src/attach/attacher                               *)
(***************************************************************************)

\* signaled() of the Unix attacher that does not look for the attach file
signaled_resolves_no_file_check(first, p, w) ==
    CASE variant = "Dummy" -> TRUE
      [] variant = "Unix" -> "sigquit" \in p
      [] variant = "Inotify" -> IF first THEN w ELSE "create_witness" \in p
      [] variant = "Kqueue" -> w

\* signaled() of the watchers that takes any event for the attach file
signaled_resolves_any_event(first, p, w) ==
    CASE variant = "Dummy" -> TRUE
      [] variant = "Unix" -> "sigquit" \in p /\ w
      [] variant = "Inotify" -> IF first THEN w ELSE p # {}
      [] variant = "Kqueue" -> w \/ p # {}

\* signaled() of the watchers that waits for an event before it looks for
\* the attach file
signaled_resolves_events_only(first, p, w) ==
    CASE variant = "Dummy" -> TRUE
      [] variant = "Unix" -> "sigquit" \in p /\ w
      [] variant = "Inotify" -> "create_witness" \in p
      [] variant = "Kqueue" -> "dir_write" \in p /\ w

\* whether a poll of signaled() completes it: `first` for the first poll,
\* p the queued wake-ups it consumes, w whether the attach file exists
signaled_resolves(first, p, w) ==
    CASE variant = "Dummy" -> TRUE
      [] variant = "Unix" -> "sigquit" \in p /\ w
      [] variant = "Inotify" -> IF first THEN w ELSE "create_witness" \in p
      [] variant = "Kqueue" -> w

\* listen() is called: the attacher is asked for its signaled() future
Listen ==
    /\ tpc = "init"
    /\ tpc' = "armed"
    /\ UNCHANGED <<cfgVars, fsVars, backlog, yielded, atBind, sOp, clientVars,
                   handleVars, tokenVars>>
    /\ UNCHANGED routerVars

\* what a poll of signaled() saw: whether it was the first one, the
\* wake-ups it consumed, whether the attach file existed, whether it
\* completed the future, and whether the future is a second one; the
\* record is kept when `seen`
poll_record(seen, first, ev, done) ==
    IF seen
    THEN [op |-> "poll", first |-> first, ev |-> ev, had |-> witness,
          done |-> done, again |-> sOp.again]
    ELSE sOp

\* windows_unix_socket::listen polls signaled()
PollSignaledStep(seen) ==
    /\ channel = "windows_unix_socket"
    /\ tpc = "armed" \/ (tpc = "waiting" /\ pending # {})
    /\ tpc' = IF signaled_resolves(tpc = "armed", pending, witness)
              THEN "resolved" ELSE "waiting"
    /\ sOp' = poll_record(seen, tpc = "armed", pending, tpc' = "resolved")
    /\ pending' = {}
    /\ UNCHANGED <<cfgVars, witness, sock, backlog, yielded, atBind,
                   clientVars, handleVars, tokenVars>>
    /\ UNCHANGED routerVars

PollSignaled == PollSignaledStep(FALSE)

\* the same poll, with its record kept
PollSignaledSeen == PollSignaledStep(TRUE)

\* the target calls signaled() again after the first future completed, as
\* test_attacher does: the new future has its own signal stream or watch,
\* with nothing queued.  The record notes whether the attach file was
\* there ("file") or not ("clean") when the future was made.
SignaledAgain ==
    /\ channel = "windows_unix_socket"
    /\ tpc = "resolved"
    /\ sOp.again = "no"
    /\ tpc' = "armed"
    /\ pending' = {}
    /\ sOp' = [no_poll EXCEPT !.again = IF witness THEN "file" ELSE "clean"]
    /\ UNCHANGED <<cfgVars, witness, sock, backlog, yielded, atBind,
                   clientVars, handleVars, tokenVars>>
    /\ UNCHANGED routerVars

\* the listener task polls the token's cancelled() future
ListenerPollToken ==
    /\ lock_unwrap
    /\ PollBody(ListenerWaker)
    /\ tokOp' = [op |-> "poll", who |-> ListenerTask, was |-> cancelled]
    /\ UNCHANGED <<clones, lockState>>

\* unix_socket::listen polls await_attach_signal: select! over the signal
\* stream and cancelled(), either branch when both are ready
PollAttachSignalStep(seen) ==
    /\ channel = "unix_socket"
    /\ \/ tpc = "armed"
       \/ tpc = "waiting" /\ (pending # {} \/ taskState[ListenerTask] = "woken")
    /\ \/ /\ "sigquit" \in pending
          /\ pending' = {}
          /\ tpc' = IF signaled_resolves(FALSE, pending, witness)
                    THEN "resolved" ELSE "armed"
          /\ sOp' = poll_record(seen, tpc = "armed" /\ sOp.op = "none",
                                 pending, tpc' = "resolved")
          /\ UNCHANGED tokenVars
       \/ /\ cancelled
          /\ ListenerPollToken
          /\ tpc' = "ended"
          /\ UNCHANGED <<pending, sOp>>
       \/ /\ "sigquit" \notin pending
          /\ ~cancelled
          /\ ListenerPollToken
          /\ tpc' = "waiting"
          /\ sOp' = poll_record(seen, tpc = "armed" /\ sOp.op = "none",
                                 {}, FALSE)
          /\ UNCHANGED pending
    /\ UNCHANGED <<cfgVars, witness, sock, backlog, yielded, atBind,
                   clientVars, handleVars>>
    /\ UNCHANGED routerVars

PollAttachSignal == PollAttachSignalStep(FALSE)

\* the same poll, with its record kept
PollAttachSignalSeen == PollAttachSignalStep(TRUE)

\* a listen() that binds without waiting for signaled()
may_bind_dormant == tpc \in {"armed", "waiting", "resolved"}

\* listen() goes on to bind once `signaled.await?` has returned
may_bind == tpc = "resolved"

\* a bind that takes over a path that exists
bind_fails_never(exists) == FALSE

\* UnixListener::bind fails with AddrInUse when the path exists
bind_fails(exists) == exists

\* UnixListener::bind(socket_file_path(pid)); unix_socket::listen first
\* returns when the token is cancelled
Bind ==
    /\ may_bind
    /\ IF channel = "unix_socket" /\ is_cancelled
       THEN /\ tpc' = "ended"
            /\ UNCHANGED <<sock, atBind>>
       ELSE IF bind_fails(sock)
       THEN /\ tpc' = "failed"
            /\ UNCHANGED <<sock, atBind>>
       ELSE /\ tpc' = "listening"
            /\ sock' = TRUE
            /\ atBind' = IF witness THEN "witness" ELSE "no_witness"
    /\ UNCHANGED <<cfgVars, witness, pending, backlog, yielded, sOp,
                   clientVars, handleVars, tokenVars>>
    /\ UNCHANGED routerVars

\* the accept loop of windows_unix_socket::listen yields a connection
Accept ==
    /\ channel = "windows_unix_socket"
    /\ tpc = "listening"
    /\ backlog > 0
    /\ backlog' = backlog - 1
    /\ yielded' = yielded + 1
    /\ UNCHANGED <<cfgVars, fsVars, tpc, atBind, sOp, clientVars, handleVars,
                   tokenVars>>
    /\ UNCHANGED routerVars

\* unix_socket::listen polls await_connection: select! over accept() and
\* cancelled(), either branch when both are ready
PollConnection ==
    /\ channel = "unix_socket"
    /\ tpc = "listening"
    /\ \/ /\ backlog > 0
          /\ backlog' = backlog - 1
          /\ yielded' = yielded + 1
          /\ UNCHANGED <<tpc, tokenVars>>
       \/ /\ cancelled
          /\ ListenerPollToken
          /\ tpc' = "ended"
          /\ UNCHANGED <<backlog, yielded>>
       \/ /\ backlog = 0
          /\ ~cancelled
          /\ ListenerPollToken
          /\ UNCHANGED <<tpc, backlog, yielded>>
    /\ UNCHANGED <<cfgVars, fsVars, atBind, sOp, clientVars, handleVars>>
    /\ UNCHANGED routerVars

\* the owner of the token cancels it
CancelListen ==
    /\ channel = "unix_socket"
    /\ Cancel(1)

\* a file that is not the attach file is created in the target's cwd
CreateOtherFile ==
    /\ variant \in {"Inotify", "Kqueue"}
    /\ Armed
    /\ pending' = on_create(pending, "create_other")
    /\ UNCHANGED <<cfgVars, witness, sock, targetVars, clientVars,
                   handleVars, tokenVars>>
    /\ UNCHANGED routerVars

\* a SIGQUIT that no signal handle sent reaches the armed target
ForeignSigquit ==
    /\ variant = "Unix"
    /\ Armed
    /\ pending' = kill_pending(pending)
    /\ UNCHANGED <<cfgVars, witness, sock, targetVars, clientVars,
                   handleVars, tokenVars>>
    /\ UNCHANGED routerVars

TargetNext ==
    \/ Listen
    \/ PollSignaled
    \/ PollAttachSignal
    \/ Bind
    \/ Accept
    \/ PollConnection
    \/ CancelListen
    \/ CreateOtherFile
    \/ ForeignSigquit

HandleNext ==
    \/ \E h \in FreeHandles : Signal(h)
    \/ \E h \in FreeHandles : Send(h)
    \/ \E h \in FreeHandles : Drop(h)

AttachNext ==
    \/ ClientNext
    \/ HandleNext
    \/ TargetNext

vars == <<tokenVars, routerVars, attachVars>>

\* nothing of the attach handshake has started, on the default channel
AttachIdle == AttachInit /\ channel = "unix_socket" /\ ~sock

Init == TokenInit /\ RouterInit /\ AttachInit

\* the token and the router are studied while no attach is under way
IdleInit == TokenInit /\ RouterInit /\ AttachIdle

SpecToken == IdleInit /\ [][TokenNext]_vars

SpecRouter == IdleInit /\ [][RouterNext]_vars

SpecLock == IdleInit /\ [][LockNext]_vars

SpecAttach == Init /\ [][AttachNext]_vars

\* the listener on its own: listen() from its call to the end of its
\* stream, with the signal handles and the connections that reach it
ListenNext ==
    \/ HandleNext
    \/ ConnectEnter
    \/ ConnectOpen
    \/ Listen
    \/ PollSignaled
    \/ PollAttachSignal
    \/ Bind
    \/ Accept
    \/ PollConnection
    \/ CancelListen
    \/ CreateOtherFile
    \/ ForeignSigquit

SpecListen == Init /\ [][ListenNext]_vars

\* the stream of listen() is polled when it is woken, select! takes each
\* of its ready branches sooner or later, and the stream goes on after
\* await_attach_signal has returned
SpecListenFair ==
    /\ SpecListen
    /\ WF_vars(PollAttachSignal /\ tpc' = "ended")
    /\ WF_vars(Bind)

\* the server cancels its CancellationToken while the stream of
\* windows_unix_socket::listen() is alive: that listen() takes no token
CancelElsewhere ==
    /\ channel = "windows_unix_socket"
    /\ Cancel(1)

\* the listener of either module with a token that is cancelled
ShutdownNext ==
    \/ HandleNext
    \/ ConnectEnter
    \/ ConnectOpen
    \/ Listen
    \/ PollSignaled
    \/ PollAttachSignal
    \/ Bind
    \/ Accept
    \/ PollConnection
    \/ CancelListen
    \/ CancelElsewhere
    \/ CreateOtherFile
    \/ ForeignSigquit

SpecShutdown == Init /\ [][ShutdownNext]_vars

\* the stream of listen() keeps being polled: every poll that is possible
\* is made sooner or later, and select! takes each of its ready branches
\* sooner or later
SpecShutdownFair ==
    /\ SpecShutdown
    /\ WF_vars(PollSignaled)
    /\ WF_vars(PollAttachSignal /\ tpc' = "ended")
    /\ WF_vars(Bind)
    /\ WF_vars(Accept)
    /\ WF_vars(PollConnection /\ tpc' = "ended")

\* the stream of listen() has a poll to make that takes it further
TargetReady ==
    \/ tpc = "armed"
    \/ tpc = "waiting" /\ pending # {}
    \/ tpc = "resolved"
    \/ tpc = "listening" /\ backlog > 0

\* the 100 ms sleep of connect() with a target that is scheduled: the
\* thread that polls the stream of listen() makes the polls it has to make
\* before the timer fires
SleepScheduled ==
    /\ ~TargetReady
    /\ ConnectSleep

\* one client and one target whose stream is polled, nobody else
HappyNext ==
    \/ ConnectEnter
    \/ ConnectSend
    \/ ConnectCheck
    \/ SleepScheduled
    \/ ConnectFinal
    \/ ConnectOpen
    \/ Listen
    \/ PollSignaled
    \/ PollAttachSignal
    \/ Bind
    \/ Accept
    \/ PollConnection

SpecHappy == Init /\ [][HappyNext]_vars

\* client and target both run
SpecHappyFair ==
    /\ SpecHappy
    /\ WF_vars(ConnectEnter) /\ WF_vars(ConnectSend) /\ WF_vars(ConnectCheck)
    /\ WF_vars(SleepScheduled) /\ WF_vars(ConnectFinal) /\ WF_vars(ConnectOpen)
    /\ WF_vars(PollSignaled) /\ WF_vars(PollAttachSignal) /\ WF_vars(Bind)
    /\ WF_vars(Accept) /\ WF_vars(PollConnection)

\* the connections the stream of listen() has yielded and that the server
\* has not handed to a session yet
Unserved == yielded - Cardinality({s \in Sessions : sessState[s] # "none"})

\* the loop of the server: a connection yielded by the stream is handed to
\* run_server_connection in a task of its own
SpawnSession(s) ==
    /\ Unserved > 0
    /\ OpenSession(s)

\* the server: listen(), the clients that connect to it, and the sessions
\* it runs on the accepted connections
ServerNext ==
    \/ HandleNext
    \/ ConnectEnter
    \/ ConnectOpen
    \/ ConnectAgain
    \/ Listen
    \/ PollSignaled
    \/ PollAttachSignal
    \/ Bind
    \/ Accept
    \/ PollConnection
    \/ CancelListen
    \/ Serve
    \/ \E s \in Sessions : SpawnSession(s)
    \/ \E s \in Sessions : \E how \in {"peer_closed", "io_error"} :
            EndSession(s, how)

SpecServer == Init /\ [][ServerNext]_vars

\* the executor of the server runs its tasks: the stream of listen() is
\* polled and goes on, and a yielded connection gets its session; the
\* peers of the sessions are under no obligation
SpecServerFair ==
    /\ SpecServer
    /\ WF_vars(PollSignaled)
    /\ WF_vars(PollAttachSignal)
    /\ WF_vars(Bind)
    /\ WF_vars(Accept)
    /\ WF_vars(PollConnection)
    /\ WF_vars(\E s \in Sessions : SpawnSession(s))

\* the attacher on its own: signal handles, connect() up to its first
\* send, the target's signaled() future with its polls recorded, and the
\* events of its environment
SignaledNext ==
    \/ HandleNext
    \/ ConnectEnter
    \/ ConnectSend
    \/ Listen
    \/ PollSignaledSeen
    \/ PollAttachSignalSeen
    \/ CancelListen
    \/ CreateOtherFile
    \/ ForeignSigquit

SpecSignaled == Init /\ [][SignaledNext]_vars

\* the attacher used as test_attacher uses it: a second signaled() future
AgainNext ==
    \/ HandleNext
    \/ ConnectEnter
    \/ ConnectSend
    \/ Listen
    \/ PollSignaledSeen
    \/ PollAttachSignalSeen
    \/ SignaledAgain
    \/ CreateOtherFile
    \/ ForeignSigquit

SpecAgain == Init /\ [][AgainNext]_vars

\* the executor polls the signaled() future again once a wake-up is queued
SpecSignaledFair ==
    /\ SpecSignaled
    /\ WF_vars(PollSignaledSeen)
    /\ WF_vars(PollAttachSignalSeen)

\* the executor polls again a task that has been woken
PollWoken(t) ==
    \E w \in Wakers :
        /\ w.task = t
        /\ taskState[t] = "woken"
        /\ Poll(w)

SpecTokenFair ==
    /\ SpecToken
    /\ \A t \in Waiters :
          WF_vars(PollWoken(t))

(***************************************************************************)
(* Claims about the cancellation token.                                    *)
(***************************************************************************)

\* C3: no lost wake-up.  Once the token is cancelled no waiter is left in
\* the state "poll returned Pending and nobody woke me" (every stored waker
\* was woken by cancel), a poll that finds the flag set returns Ready, and
\* with an executor that polls woken tasks again every waiter that was
\* polled ends up Ready.
C3_NoLostWakeup ==
    /\ [](cancelled => \A t \in Waiters : taskState[t] # "pending")
    /\ []((tokOp.op = "poll" /\ tokOp.was) => taskState[tokOp.who] = "ready")
    /\ (cancelled ~> \A t \in Waiters : taskState[t] \in {"new", "ready"})

\* a waiter that was pending when cancel() ran has been polled again and
\* is Ready
C3_Witness ==
    \E w \in Wakers :
        /\ w.task \in Waiters
        /\ woke[w] = 1
        /\ taskState[w.task] = "ready"
        /\ cancelled

\* C4: cancellation is monotonic.  No step resets the flag, and
\* is_cancelled() on any clone called when the flag is set returns true.
C4_Monotonic ==
    [][/\ (cancelled => cancelled')
       /\ ((cancelled /\ tokOp'.op = "is_cancelled") => tokOp'.was)]_vars

\* is_cancelled() on the second clone returned true
C4_Witness ==
    /\ tokOp.op = "is_cancelled"
    /\ tokOp.who = 2
    /\ tokOp.was
    /\ cancelled

\* C5: cancel() is idempotent.  A cancel() on an already cancelled token
\* changes nothing (flag set, no stored wakers, no task woken, no wake
\* count changed), and in a cancelled token every waker that was stored
\* has been woken exactly once.
C5_CancelIdempotent ==
    /\ [](cancelled =>
            /\ wakers = <<>>
            /\ \A w \in Wakers : woke[w] = stored[w] /\ woke[w] <= 1)
    /\ [][(cancelled /\ tokOp'.op = "cancel") =>
            /\ cancelled'
            /\ wakers' = <<>>
            /\ taskState' = taskState
            /\ woke' = woke]_vars

\* a second cancel() ran on a token whose stored waker had been woken
C5_Witness ==
    /\ tokOp.op = "cancel"
    /\ tokOp.was
    /\ \E w \in Wakers : woke[w] = 1 /\ stored[w] = 1

(***************************************************************************)
(* Claims about the capability router.                                     *)
(***************************************************************************)

\* the calls of session s, as positions of its log
Calls(s) == 1..Len(sessLog[s])

\* C6: a registered factory runs exactly once however many service(name)
\* calls succeed, from one session or several: a cell that was realized
\* has had its factory run once, a cell that was not has not run it, and
\* every successful call returned the capability memoized in the cell.
C6_FactoryOnce ==
    /\ \A name \in DOMAIN services :
          invoked[services[name].factory] =
              IF services[name].cap = 0 THEN 0 ELSE 1
    /\ \A s \in Sessions : \A i \in Calls(s) :
          sessLog[s][i].kind = "ok" =>
              /\ sessLog[s][i].name \in DOMAIN services
              /\ invoked[services[sessLog[s][i].name].factory] = 1
              /\ sessLog[s][i].cap = services[sessLog[s][i].name].cap

\* three successful service("echo") calls, two on one session and one on
\* the other
C6_Witness ==
    /\ Len(sessLog[1]) = 2
    /\ sessLog[1][1].kind = "ok" /\ sessLog[1][1].name = Echo
    /\ sessLog[1][2].kind = "ok" /\ sessLog[1][2].name = Echo
    /\ Len(sessLog[2]) >= 1
    /\ sessLog[2][1].kind = "ok" /\ sessLog[2][1].name = Echo

\* C7 as stated: service(name) for an unregistered name fails with an
\* error of the unimplemented kind whose message contains
\* "service <name> not found".
C7_Original ==
    \A s \in Sessions : \A i \in Calls(s) :
        sessLog[s][i].name \notin DOMAIN services =>
            /\ sessLog[s][i].kind = "err"
            /\ sessLog[s][i].err.kind = "Unimplemented"
            /\ Contains(sessLog[s][i].err.extra,
                        <<"service", " ">> \o sessLog[s][i].name
                            \o <<" ", "not", " ", "found">>)

\* C7: service(name) for an unregistered name fails with an error of the
\* failed kind whose message contains "service <name> not found".
C7_UnknownServiceFailed ==
    \A s \in Sessions : \A i \in Calls(s) :
        sessLog[s][i].name \notin DOMAIN services =>
            /\ sessLog[s][i].kind = "err"
            /\ sessLog[s][i].err.kind = "Failed"
            /\ Contains(sessLog[s][i].err.extra,
                        <<"service", " ">> \o sessLog[s][i].name
                            \o <<" ", "not", " ", "found">>)

\* service("tango") failed on a router that has "echo" only
C7_Witness ==
    /\ DOMAIN services = {Echo}
    /\ \E s \in Sessions : \E i \in Calls(s) :
          sessLog[s][i].name = Tango /\ sessLog[s][i].kind = "err"

\* session s has just received the result of one more service() call
Called(s) == Len(sessLog'[s]) = Len(sessLog[s]) + 1

\* C8: a failed service(name) changes neither the session nor the router
\* (the session stays running, no cell is added or realized, no factory
\* runs), and any service(n) of a running session for a registered n
\* succeeds, also after a failure.
C8_FailureLeavesSessionUsable ==
    [][\A s \in Sessions :
          Called(s) =>
            /\ sessLog'[s][Len(sessLog'[s])].kind = "err" =>
                  /\ sessState' = sessState
                  /\ sessState'[s] = "running"
                  /\ services' = services
                  /\ invoked' = invoked
                  /\ ncaps' = ncaps
            /\ sessLog'[s][Len(sessLog'[s])].name \in DOMAIN services =>
                  sessLog'[s][Len(sessLog'[s])].kind = "ok"]_vars

\* a session whose first call failed and whose second call succeeded
C8_Witness ==
    \E s \in Sessions :
        /\ sessState[s] = "running"
        /\ Len(sessLog[s]) = 2
        /\ sessLog[s][1].kind = "err"
        /\ sessLog[s][2].kind = "ok"

(***************************************************************************)
(* Claims about the attach handshake.                                      *)
(***************************************************************************)

\* C1: in the file-based variants, a send() that returns Ok on a handle
\* that had created its attach file and found it removed leaves the attach
\* file in place when it returns.
C1_SendRecreates ==
    (/\ variant \in FileVariants
     /\ aOp.op = "send"
     /\ aOp.ok
     /\ aOp.had
     /\ ~aOp.found) => aOp.left

\* C2 as stated: for every successful attach, the attach file exists in
\* the state where the socket path first exists.
C2_Original ==
    (cres.kind = "ok" /\ atBind # "unbound") => atBind = "witness"

\* C2: with a file-based attacher, for a connect() that sent the attach
\* signal and returned Ok while no other signal handle of that PID was
\* dropped, the attach file exists in the state where the socket path
\* first exists.
C2_WitnessAtBind ==
    (/\ variant \in FileVariants
     /\ cres.kind = "ok"
     /\ nsends > 0
     /\ \A h \in FreeHandles : hstate[h] # "dropped"
     /\ atBind # "unbound") => atBind = "witness"

\* connect() provoked the attach, was served and succeeded
C2_Witness ==
    /\ variant \in FileVariants
    /\ cres.kind = "ok"
    /\ nsends > 1
    /\ \A h \in FreeHandles : hstate[h] = "none"
    /\ atBind = "witness"
    /\ yielded = 1

\* C9: when the retry budget is exhausted and the socket path is still
\* missing, connect() returns an error whose message starts with "Unable
\* to open socket file"; it does not panic and does not try to open the
\* socket.
C9_NoResponseIsError ==
    (cpc = "returned" /\ cres.exit = "final") =>
        /\ cres.kind = "err"
        /\ StartsWith(cres.msg, <<"Unable to open socket file ">>)
        /\ ~opened

\* C10: connect() sends at most 100 times and sleeps at most 99 times, and
\* it ends: each of its steps moves it forward in a loop of at most 100
\* rounds, and after the last round it has returned.
Rank ==
    CASE cpc = "idle" -> 0
      [] cpc = "send" -> 1 + 3 * attempts
      [] cpc = "check" -> 3 * attempts - 1
      [] cpc = "sleep" -> 3 * attempts
      [] cpc = "final" -> 3 * MaxAttempts
      [] cpc = "open" -> 3 * MaxAttempts + 1
      [] cpc = "returned" -> 3 * MaxAttempts + 2

C10_ConnectBounded ==
    /\ [](nsends <= 100 /\ nsleeps <= 99 /\ Rank <= 3 * 100 + 2)
    /\ [][cpc' # cpc => Rank' > Rank]_vars

\* connect() used its whole budget
C10_Witness ==
    /\ cpc = "returned"
    /\ nsends = 100
    /\ nsleeps = 99

\* connect() found the socket path at its first check: it is at, or went
\* through, UnixStream::connect without a send and without the loop
EnteredWithSocket ==
    /\ cpc \in {"open", "returned"}
    /\ nsends = 0
    /\ cres.exit \in {"none", "open"}

\* C11: when the socket path exists at the entry of connect(pid), the steps
\* of connect obtain no signal handle, send nothing, neither create nor
\* remove the attach file, deliver no signal to the target and sleep
\* never; connect only opens the socket.
C11_SocketPresentOnlyOpens ==
    [][(/\ cpc' # cpc
        /\ IF cpc = "idle" THEN sock ELSE EnteredWithSocket) =>
            /\ cpc' \in {"open", "returned"}
            /\ hstate'[ConnectHandle] = "none"
            /\ nsends' = 0 /\ attempts' = 0 /\ nsleeps' = 0
            /\ witness' = witness
            /\ pending' = pending
            /\ tpc' = tpc
            /\ aOp' = aOp
            /\ (cpc' = "returned" => opened' /\ cres'.exit = "open")]_vars

\* connect() found the socket of a listening target and opened it
C11_Witness ==
    /\ cpc = "returned"
    /\ cres.kind = "ok" /\ cres.exit = "open"
    /\ opened
    /\ nsends = 0
    /\ hstate[ConnectHandle] = "none"

\* C12: when connect(pid) has returned, whatever the exit (socket opened,
\* no response, error of send), the signal handle it obtained is dropped;
\* the drop of a handle that had created the attach file leaves no attach
\* file, and none exists at the return when no other handle was made.
C12_HandleDroppedOnExit ==
    /\ [](cpc = "returned" =>
            /\ hstate[ConnectHandle] \in {"none", "dropped"}
            /\ (nsends > 0 => hstate[ConnectHandle] = "dropped")
            /\ cres.exit \in {"open", "final", "send", "create"}
            /\ ((\A h \in FreeHandles : hstate[h] = "none") => ~witness))
    /\ [][(/\ hstate[ConnectHandle] = "holding"
           /\ hstate'[ConnectHandle] = "dropped") => ~witness']_vars

\* connect() gave up after its last attempt and its drop removed the file
C12_Witness ==
    /\ cpc = "returned"
    /\ cres.exit = "final"
    /\ hstate[ConnectHandle] = "dropped"
    /\ aOp.op = "drop" /\ aOp.h = ConnectHandle
    /\ aOp.had /\ aOp.found
    /\ ~witness

\* C13: right after the drop of any signal handle that had created the
\* attach file, the attach file is absent, whether the drop found the file
\* or not.
C13_DropRemovesWitness ==
    [][\A h \in Handles :
          (hstate[h] = "holding" /\ hstate'[h] = "dropped") =>
              /\ ~witness'
              /\ aOp'.op = "drop" /\ aOp'.h = h /\ ~aOp'.left]_vars

\* a handle is dropped and removes the file that was removed by the drop
\* of another handle and created again since
C13_Witness ==
    /\ aOp.op = "drop" /\ aOp.h = ConnectHandle
    /\ aOp.had /\ aOp.found
    /\ ~witness
    /\ \E h \in FreeHandles : hstate[h] = "dropped"

\* C14 as stated: while a signal handle of a file-based variant is alive,
\* from signal(pid) on, the attach file exists.
C14_Original ==
    \A h \in Handles : hstate[h] \in {"fresh", "holding"} => witness

\* C14: signal(pid) creates nothing; the first successful send() of a
\* handle leaves the attach file on disk; from then on the file stays until
\* a handle of that PID that had created it is dropped.
C14_WitnessFromFirstSend ==
    [][/\ \A h \in Handles :
            (hstate[h] = "none" /\ hstate'[h] \in {"fresh", "plain"}) =>
                witness' = witness
       /\ \A h \in Handles :
            (hstate[h] # "holding" /\ hstate'[h] = "holding") => witness'
       /\ (witness /\ ~witness') =>
            \E h \in Handles :
                hstate[h] = "holding" /\ hstate'[h] = "dropped"]_vars

\* the first send() of a handle has just created the file
C14_Witness ==
    /\ aOp.op = "send" /\ aOp.ok
    /\ ~aOp.had /\ ~aOp.found /\ aOp.left
    /\ hstate[aOp.h] = "holding"
    /\ witness

(***************************************************************************)
(* Claims about the signaled() future.                                     *)
(***************************************************************************)

\* a step that is a poll of the signaled() future not polled before
FirstPoll ==
    /\ tpc = "armed"
    /\ sOp.op = "none"
    /\ sOp'.op = "poll"

\* C15: signaled() arms the wake-up when it is constructed, in every
\* variant: once the future is returned and not yet polled the wake-up is
\* armed, and the first poll completes the future when the last handle
\* operation was a successful send() and that handle is still alive with
\* its attach file.
C15_ArmedAtConstruction ==
    /\ []((tpc = "armed" /\ sOp.op = "none") => (variant = "Dummy" \/ Armed))
    /\ [][(/\ FirstPoll
           /\ aOp.op = "send" /\ aOp.ok
           /\ hstate[aOp.h] \in {"plain", "holding"}
           /\ (variant \in FileVariants => witness)) => sOp'.done]_vars

\* a step that completes the signaled() future
Resolves == tpc \in {"armed", "waiting"} /\ tpc' = "resolved"

\* C16: in the Signal+File variant, signaled() completes only at a poll
\* in which it receives a SIGQUIT from its signal stream while the attach
\* file exists; the SIGQUITs it receives while the attach file is absent,
\* however many, never complete it.
C16_SigquitAndFileAtPoll ==
    [][/\ (variant = "Unix" /\ Resolves) => ("sigquit" \in pending /\ witness)
       /\ (variant = "Unix" /\ sOp' # sOp /\ ~sOp'.had) => ~sOp'.done
       /\ (variant = "Unix" /\ sOp' # sOp /\ sOp'.done) =>
              ("sigquit" \in sOp'.ev /\ sOp'.had)]_vars

\* a poll of signaled() received SIGQUIT while the attach file was absent
\* and did not complete, though a handle had sent before
C16_Witness ==
    /\ variant = "Unix"
    /\ sOp.op = "poll"
    /\ "sigquit" \in sOp.ev
    /\ ~sOp.had /\ ~sOp.done
    /\ tpc \in {"armed", "waiting"}
    /\ \E h \in Handles : hstate[h] = "dropped"

WatchVariants == {"Inotify", "Kqueue"}

\* C17: in the watch+file variants, a poll of signaled() that finds no
\* attach file and no create event of the attach file does not complete
\* it, whatever other files were created; a poll that receives the create
\* event of the attach file (inotify) or finds the attach file (kqueue)
\* completes it; and once the attach file is created under the watch,
\* signaled() is completed unless the file is removed first.
C17_OnlyWitnessResolves ==
    /\ [][(variant \in WatchVariants /\ sOp' # sOp) =>
            /\ ("create_witness" \notin sOp'.ev /\ ~sOp'.had) => ~sOp'.done
            /\ (variant = "Inotify" /\ "create_witness" \in sOp'.ev) => sOp'.done
            /\ (variant = "Kqueue" /\ sOp'.had) => sOp'.done]_vars
    /\ (/\ variant \in WatchVariants
        /\ tpc = "waiting"
        /\ witness
        /\ pending # {}) ~> (tpc = "resolved" \/ ~witness)

\* a poll saw the creation of another file only and did not complete; a
\* later poll saw the creation of the attach file too and completed
C17_Witness ==
    /\ variant = "Inotify"
    /\ tpc = "resolved"
    /\ sOp.done /\ ~sOp.first
    /\ sOp.ev = {"create_other", "create_witness"}

\* C18 as stated: in every file-based variant, the first poll of
\* signaled() completes it when the attach file exists.
C18_Original ==
    [][(variant \in FileVariants /\ FirstPoll /\ witness) => sOp'.done]_vars

\* C18: in the watch+file variants, the first poll of signaled() completes
\* it when the attach file exists, and no event was received for it.
C18_ResolvedByFileAlone ==
    [][(variant \in WatchVariants /\ FirstPoll /\ witness) =>
            (sOp'.done /\ sOp'.ev = {} /\ tpc' = "resolved")]_vars

\* the first poll found the attach file and completed on it
C18_Witness ==
    /\ variant \in WatchVariants
    /\ tpc = "resolved"
    /\ sOp.first /\ sOp.done /\ sOp.had
    /\ sOp.ev = {}

\* the handle h2 has just sent for the first time, after another handle of
\* the same PID was dropped, while the target's signaled() is not completed
Rearmed(h2) ==
    /\ tpc \in {"armed", "waiting"}
    /\ hstate[h2] = "holding"
    /\ aOp.op = "send" /\ aOp.h = h2 /\ aOp.ok /\ ~aOp.had
    /\ \E h1 \in Handles \ {h2} : hstate[h1] = "dropped"

\* C19: re-arm after drop.  When a handle was dropped while the target's
\* signaled() was not completed, and a new handle of the same PID sends,
\* signaled() is eventually completed, as long as the target is polled,
\* its listen() is not cancelled and the attach file of the new handle is
\* not removed before the target looks for it.
C19_RearmAfterDrop ==
    \A h2 \in Handles :
        Rearmed(h2) ~> (tpc = "resolved" \/ ~witness \/ cancelled)

\* signaled() was polled without completing, and completed after the send
\* of connect()'s handle that followed the drop of another handle
C19_Witness ==
    /\ variant \in FileVariants
    /\ tpc = "resolved"
    /\ sOp.done /\ ~sOp.first
    /\ hstate[ConnectHandle] = "holding"
    /\ aOp.op = "send" /\ aOp.h = ConnectHandle /\ ~aOp.had
    /\ \E h1 \in FreeHandles : hstate[h1] = "dropped"
    /\ witness

\* unix_socket::listen has not got past its is_cancelled() check
BeforeBind == tpc \in {"init", "armed", "waiting", "resolved"}

\* C20: cancel before the wake-up is observed.  Once the token is cancelled
\* while unix_socket::listen has not bound its socket, no step binds the
\* socket or yields an item, and the stream that is polled ends.
C20_CancelledBeforeWakeup ==
    /\ [][(channel = "unix_socket" /\ cancelled /\ BeforeBind)
            => /\ tpc' \in {"init", "armed", "waiting", "resolved", "ended",
                        "dead"}
               /\ sock' = sock
               /\ atBind' = "unbound"
               /\ yielded' = 0]_vars
    /\ (channel = "unix_socket" /\ cancelled
            /\ tpc \in {"armed", "waiting", "resolved"})
         ~> (tpc = "ended" /\ atBind = "unbound" /\ yielded = 0)

\* the token was cancelled while await_attach_signal was waiting with an
\* attach request queued, and the stream has ended unbound and empty
C20_Witness ==
    /\ channel = "unix_socket"
    /\ cancelled
    /\ tpc = "ended"
    /\ tokOp.op = "poll" /\ tokOp.who = ListenerTask /\ tokOp.was
    /\ atBind = "unbound" /\ ~sock
    /\ yielded = 0
    /\ witness /\ "sigquit" \in pending

\* C21: no item after cancel().  Once the token of unix_socket::listen is
\* cancelled, no poll of the stream yields a connection, whatever waits in
\* the accept queue: the number of yielded connections stays as it is.
C21_NoItemAfterCancel ==
    [][(channel = "unix_socket" /\ cancelled) => yielded' = yielded]_vars

\* what a poll of signaled() takes for the attach request, per variant
WakeupObserved ==
    CASE variant = "Dummy" -> TRUE
      [] variant = "Unix" -> "sigquit" \in pending /\ witness
      [] variant = "Inotify" -> witness \/ "create_witness" \in pending
      [] variant = "Kqueue" -> witness

\* C23: dormant until attached.  The socket path is created only by the
\* bind of a listen() whose signaled() future has resolved, that future
\* resolves only in a poll that observes the wake-up of its variant, and a
\* socket path that exists before that is not the target's.
C23_BoundAfterWakeup ==
    /\ [][(sock' /\ ~sock) => (tpc = "resolved" /\ tpc' = "listening")]_vars
    /\ [][(tpc' = "resolved" /\ tpc # "resolved")
            => (tpc \in {"armed", "waiting"} /\ WakeupObserved)]_vars
    /\ [](atBind # "unbound" => (sock /\ tpc \in {"listening", "ended"}))
    /\ []((sock /\ tpc \in {"init", "armed", "waiting", "resolved", "dead"})
            => atBind = "unbound")

\* the target of a file-based attacher has bound its socket after the send
\* of a signal handle that is still alive, and no client has connected yet
C23_Witness ==
    /\ variant \in FileVariants
    /\ tpc = "listening"
    /\ sock /\ atBind = "witness"
    /\ aOp.op = "send" /\ aOp.ok /\ hstate[aOp.h] = "holding"
    /\ cpc = "idle"
    /\ backlog = 0 /\ yielded = 0

\* C26: signal(pid) reports the target that cannot be resolved.  A
\* signal(pid) called when the PID cannot be mapped to a working directory
\* returns an error: it yields no signal handle, and no attach file is
\* created.
C26_SignalReportsUnresolvable ==
    [][(Gone /\ aOp' # aOp /\ aOp'.op = "signal")
        => (~aOp'.ok /\ hstate' = hstate /\ witness' = witness)]_vars

\* C27: the socket path is removed at a graceful shutdown.  When the token
\* is cancelled and the stream of a listen() that had bound its socket has
\* ended, the socket path does not exist any more.
C27_SocketRemovedAtShutdown ==
    (cancelled /\ tpc = "ended" /\ atBind # "unbound") => ~sock

\* C28: stale socket.  When listen() comes to bind and the socket path
\* exists, the bind fails and the stream ends on that error (a cancelled
\* unix_socket::listen ends before it binds); the path is left as it is,
\* no connection is accepted, and nothing is yielded after the error.
C28_StaleSocketFailsBind ==
    /\ [][(tpc = "resolved" /\ sock /\ tpc' # tpc)
            => /\ \/ tpc' = "failed"
                  \/ channel = "unix_socket" /\ cancelled /\ tpc' = "ended"
               /\ sock'
               /\ atBind' = "unbound"
               /\ yielded' = 0]_vars
    /\ [][tpc = "failed"
            => (tpc' = "failed" /\ yielded' = yielded /\ backlog' = backlog)]_vars
    /\ [](tpc = "failed" => (sock /\ atBind = "unbound" /\ yielded = 0))

\* the bind has failed on a stale socket path, and a client that found the
\* path could not connect to it
C28_Witness ==
    /\ tpc = "failed"
    /\ sock /\ atBind = "unbound"
    /\ cpc = "returned" /\ opened
    /\ cres.kind = "err" /\ cres.exit = "open"
    /\ backlog = 0 /\ yielded = 0

\* some session has called service(name)
Requested(name) ==
    \E s \in Sessions : \E i \in 1..Len(sessLog[s]) : sessLog[s][i].name = name

\* C29: registration is lazy.  register_service runs no factory and builds
\* no capability; a factory runs only in the step of a service(name) call
\* that hits its cell, not yet initialized; a registered service that was
\* never requested has an uninitialized cell and a factory that never ran.
C29_LazyRegistration ==
    /\ [][nregs' > nregs => (invoked' = invoked /\ ncaps' = ncaps)]_vars
    /\ [][\A f \in Factories :
            invoked'[f] # invoked[f]
            => \E s \in Sessions :
                /\ Len(sessLog'[s]) = Len(sessLog[s]) + 1
                /\ LET e == sessLog'[s][Len(sessLog'[s])]
                   IN /\ e.kind = "ok"
                      /\ e.name \in DOMAIN services
                      /\ services[e.name].factory = f
                      /\ services[e.name].cap = 0]_vars
    /\ [](\A name \in DOMAIN services :
            Requested(name)
            \/ (services[name].cap = 0 /\ invoked[services[name].factory] = 0))
    /\ [](\A f \in Factories :
            invoked[f] > 0
            => \E name \in DOMAIN services :
                services[name].factory = f /\ Requested(name))

\* two services are registered, one was requested and initialized, the
\* other was never requested and its factory never ran
C29_Witness ==
    /\ phase = "serving"
    /\ DOMAIN services = {Echo, Tango}
    /\ Requested(Echo) /\ services[Echo].cap # 0
    /\ invoked[services[Echo].factory] = 1
    /\ ~Requested(Tango) /\ services[Tango].cap = 0
    /\ invoked[services[Tango].factory] = 0
    /\ TotalCalls = MaxCalls

\* C30: check, then send, then sleep.  In the retry loop of connect every
\* send after the first one is issued from the existence check that found
\* the socket path missing, with no sleep in between, so that no signal is
\* sent once the socket path exists.
C30_ResendRightAfterCheck ==
    /\ [][(nsends >= 1 /\ cpc' = "send" /\ cpc # "send") => cpc = "check"]_vars
    /\ [][(nsends >= 1 /\ nsends' > nsends) => ~sock]_vars

\* the target is alive, and a socket path that exists is its own and is
\* being served
TargetServes ==
    /\ tpc \in {"armed", "waiting", "resolved", "listening"}
    /\ sock => (tpc = "listening" /\ atBind # "unbound")

\* C25: concurrent connects.  While connect() and the other users of the
\* attacher address one target, the socket path is created at most once,
\* and a connect() that ends while the target serves has either opened the
\* socket or returned the NoResponse error.
C25_BindOnceConnectOrNoResponse ==
    /\ [][sock' # sock => (~sock /\ sock' /\ atBind = "unbound")]_vars
    /\ []((cpc = "returned" /\ TargetServes)
            => \/ cres.kind = "ok" /\ opened
               \/ /\ cres.kind = "err"
                  /\ cres.exit = "final"
                  /\ ~opened)

\* C22: cancel() ends the sessions.  Every session that is running when
\* the token is cancelled ends, whatever its peer does.
C22_CancelEndsSessions ==
    \A s \in Sessions :
        (cancelled /\ sessState[s] = "running") ~> (sessState[s] # "running")

\* C24: a transport error ends one session only.  The step in which a
\* session ends on a transport error leaves the other sessions, the
\* listener, its accept queue and the token as they are, and afterwards a
\* listener that is not cancelled still yields the connection that waits
\* in its accept queue and the server still hands a yielded connection to
\* a new session.
C24_TransportErrorIsLocal ==
    /\ [][\A s \in Sessions :
            (sessState[s] = "running" /\ sessState'[s] = "io_error")
            => /\ \A t \in Sessions \ {s} : sessState'[t] = sessState[t]
               /\ UNCHANGED <<tpc, sock, backlog, yielded, cancelled>>]_vars
    /\ []((/\ \E s \in Sessions : sessState[s] = "io_error"
            /\ tpc = "listening"
            /\ backlog > 0
            /\ ~cancelled)
           => ENABLED ((Accept \/ PollConnection) /\ yielded' = yielded + 1))
    /\ []((/\ \E s \in Sessions : sessState[s] = "io_error"
            /\ \E t \in Sessions : sessState[t] = "none"
            /\ Unserved > 0)
           => ENABLED (\E s \in Sessions : SpawnSession(s)))

\* one session has ended on a transport error, the listener goes on and
\* another session runs
C24_Witness ==
    /\ ~cancelled
    /\ tpc = "listening"
    /\ yielded = 2
    /\ \E s \in Sessions :
        /\ sessState[s] = "io_error"
        /\ \E t \in Sessions \ {s} : sessState[t] = "running"

(***************************************************************************)
(* Claims about the stored wakers and the lock of the token.               *)
(***************************************************************************)

\* C31 as stated: in every reachable state no two stored wakers belong to
\* the same task, and the list is no longer than the number of waiting
\* tasks.
C31_Original ==
    /\ \A i, j \in 1..Len(wakers) :
          i # j => wakers[i].task # wakers[j].task
    /\ Len(wakers) <= Cardinality({t \in Tasks : taskState[t] # "new"})

\* C31: stored wakers are deduplicated by waker identity.  In every
\* reachable state no stored waker reports will_wake for another stored
\* one, so polls repeated with the same waker before cancel() store it
\* exactly once; a task polled with wakers that do not report will_wake for
\* each other has one entry for each of them, and the list is no longer
\* than the number of distinct wakers the tasks were polled with.
C31_DedupByIdentity ==
    /\ \A i, j \in 1..Len(wakers) :
          i # j => ~will_wake(wakers[i], wakers[j])
    /\ ~cancelled =>
          \A w \in Wakers : stored[w] = CountIn(wakers, w) /\ stored[w] <= 1
    /\ Len(wakers) <= Cardinality(Wakers)
    /\ \A t \in Tasks :
          taskState[t] = "new" => \A i \in 1..Len(wakers) : wakers[i].task # t

\* one task was polled with two wakers and both are stored, each once
C31_Witness ==
    /\ ~cancelled
    /\ tokOp.op = "poll"
    /\ Len(wakers) = 2
    /\ wakers[1].task = wakers[2].task
    /\ wakers[1] # wakers[2]

(***************************************************************************)
(* Claims about registration in the router.                                *)
(***************************************************************************)

\* C32: registration replaces.  A register_service(name) call leaves
\* exactly one cell under the name, a fresh one that holds the factory of
\* this call, and leaves the other names alone; a factory whose cell was
\* replaced before the router served never runs, and every service(name)
\* that succeeds returns the capability built by the factory registered
\* last under the name, which ran once.
C32_RegistrationReplaces ==
    /\ [][nregs' = nregs + 1 =>
            \E name \in RegNames :
                /\ DOMAIN services' = (DOMAIN services) \cup {name}
                /\ services'[name] = [factory |-> nregs + 1, cap |-> 0]
                /\ \A x \in (DOMAIN services) \ {name} :
                      services'[x] = services[x]]_vars
    /\ [](\A f \in 1..nregs :
            (\A name \in DOMAIN services : services[name].factory # f)
            => invoked[f] = 0)
    /\ [](\A s \in Sessions : \A i \in 1..Len(sessLog[s]) :
            LET e == sessLog[s][i] IN
            e.kind = "ok" =>
                /\ e.name \in DOMAIN services
                /\ e.cap = services[e.name].cap
                /\ e.cap # 0
                /\ invoked[services[e.name].factory] = 1)

\* one name was registered twice and then requested: the second factory
\* ran, the first never did
C32_Witness ==
    /\ nregs = 2
    /\ DOMAIN services = {Echo}
    /\ services[Echo].factory = 2
    /\ invoked[1] = 0
    /\ invoked[2] = 1
    /\ \E s \in Sessions : \E i \in 1..Len(sessLog[s]) :
          sessLog[s][i].name = Echo /\ sessLog[s][i].kind = "ok"

\* C36: nothing is retained after cancellation.  In every reachable state
\* of a cancelled token the waker list is empty: the cancel() that sets the
\* flag leaves it empty, whatever it held, and a poll that finds the flag
\* set makes the future Ready and stores nothing.
C36_NothingRetained ==
    /\ [](cancelled => wakers = <<>>)
    /\ [][(tokOp' # tokOp /\ tokOp'.op = "cancel") =>
            (cancelled' /\ wakers' = <<>> /\ stored' = stored)]_vars
    /\ [][(tokOp' # tokOp /\ tokOp'.op = "poll" /\ tokOp'.was) =>
            /\ taskState'[tokOp'.who] = "ready"
            /\ wakers' = <<>>
            /\ stored' = stored]_vars

\* a cancelled() future was polled after a cancel() that drained two wakers
C36_Witness ==
    /\ cancelled
    /\ tokOp.op = "poll"
    /\ tokOp.was
    /\ taskState[tokOp.who] = "ready"
    /\ Cardinality({w \in Wakers : woke[w] = 1}) >= 2
    /\ wakers = <<>>

\* C37 as stated: cancel() always returns.  No cancel() is ever stuck on
\* the lock it holds itself or ended by a panic, whatever the wakers it
\* wakes do before wake() returns.
C37_CancelReturns == lockState \notin {"deadlocked", "panicked"}

(***************************************************************************)
(* Claims about a second signaled() future and about several handles.      *)
(***************************************************************************)

\* C33 as stated: with any attacher, a signaled() future made after the
\* previous attach completed and the attach file was removed completes
\* only on an attach file created since, and only a send creates it.
C33_Original ==
    [][(sOp.again = "clean" /\ Resolves) =>
            (witness \/ "create_witness" \in pending)]_vars

\* C33: an attach is not remembered by the file-based attachers.  A
\* signaled() future made after the previous attach completed and the
\* attach file was removed is not completed by a poll, however many there
\* are, unless the attach file exists again or its creation was reported
\* to this future; the file comes into existence only by a send() or by
\* the file creation of unix_socket::connect.  (The Dummy attacher
\* completes every signaled() future at once.)
C33_AttachNotRemembered ==
    /\ [][(variant \in FileVariants /\ sOp.again = "clean" /\ Resolves) =>
            (witness \/ "create_witness" \in pending)]_vars
    /\ [][(~witness /\ witness') =>
            (aOp' # aOp /\ aOp'.op \in {"send", "create"} /\ aOp'.ok)]_vars

\* the second future was polled after the handle of the first attach was
\* dropped, and is still pending
C33_Witness ==
    /\ variant \in FileVariants
    /\ sOp.again = "clean"
    /\ sOp.op = "poll"
    /\ ~sOp.done
    /\ tpc = "waiting"
    /\ ~witness
    /\ \E h \in Handles : hstate[h] = "dropped"

\* C38 as stated: in every variant other than Dummy the attach file exists
\* in the state where signaled() resolves.
C38_Original ==
    [][(variant # "Dummy" /\ Resolves) => witness']_vars

\* C38: in the Signal+File and kqueue variants the attach file exists in
\* the state where signaled() resolves, so a SIGQUIT or a directory event
\* queued for an attach file that has since been removed does not resolve
\* it.  In the inotify variant signaled() resolves when the file exists at
\* its first poll or, later, when it reads the create event of the file,
\* whether or not the file is still there.
C38_WitnessAtResolve ==
    /\ [][(variant \in {"Unix", "Kqueue"} /\ Resolves) => witness']_vars
    /\ [][(variant \in {"Unix", "Kqueue"} /\ sOp' # sOp /\ ~witness) =>
            (~sOp'.done /\ tpc' # "resolved")]_vars
    /\ [][(variant = "Inotify" /\ Resolves) =>
            IF sOp'.first THEN witness'
            ELSE "create_witness" \in sOp'.ev]_vars

\* a poll took a wake-up queued for an attach file that a dropped handle
\* had removed, and did not resolve
C38_Witness ==
    /\ variant \in {"Unix", "Kqueue"}
    /\ sOp.op = "poll"
    /\ sOp.ev # {}
    /\ ~sOp.had
    /\ ~sOp.done
    /\ tpc # "resolved"
    /\ \E h \in Handles : hstate[h] = "dropped" /\ aOp.op = "drop" /\ aOp.had

\* C39: when a handle that has sent is dropped while another handle that
\* has sent is alive, the attach file is still there afterwards.
C39_FileWhileAHandleLives ==
    [][\A h \in Handles :
        (/\ hstate[h] = "holding"
         /\ hstate'[h] = "dropped"
         /\ witness
         /\ \E h2 \in Handles \ {h} : hstate'[h2] = "holding")
        => witness']_vars

(***************************************************************************)
(* Claims about the liveness of listen() and connect().                    *)
(***************************************************************************)

\* C34: after cancel(), a listen() stream that keeps being polled ends
\* sooner or later (or has failed), whether it waits for the attach
\* wake-up, stands before the bind, or waits in accept().
C34_CancelEndsListen ==
    (cancelled /\ tpc \in {"armed", "waiting", "resolved", "listening"})
        ~> (tpc \in {"ended", "failed", "dead"})

====
